---- MODULE Spec2Model ----
(***************************************************************************)
(* A model of the CORS proxy worker of src/index.js: the pattern matcher   *)
(* (wildcardToRegex, isMatched), the access policy (isAccessAllowed) and   *)
(* the fetch handler (header filter, upstream call, response composer).    *)
(*                                                                         *)
(* Strings are sequences of one-character strings.  The JavaScript value   *)
(* null is the one-element sequence Null, which no string equals.          *)
(***************************************************************************)
EXTENDS Integers, Sequences, FiniteSets, TLC

VARIABLES
    pc,             \* position of the handler: idle, received, fetching, reading,
                    \* responded, failed
    envLists,       \* getAccessLists(env): the four pattern lists
    request,        \* the incoming request: method, search, headers
    upstreamCalls,  \* number of calls of fetch(targetUrl, newRequest) made so far
    outbound,       \* the request handed to the upstream fetch
    upstream,       \* the upstream's response
    response,       \* the Response the handler returned
    thrown,         \* the error the handler's promise rejected with, "" when none
    call,           \* arguments of a direct call of isMatched / isAccessAllowed
    ret             \* what that call returned

vars == <<pc, envLists, request, upstreamCalls, outbound, upstream, response, thrown,
          call, ret>>

(***************************************************************************)
(* Bounds of the model.                                                    *)
(***************************************************************************)
MaxPatLen == 3
MaxSubjLen == 3

RECURSIVE SeqsUpTo(_, _)
SeqsUpTo(S, n) ==
    IF n = 0 THEN {<<>>}
    ELSE LET shorter == SeqsUpTo(S, n - 1)
         IN  shorter \cup {Append(s, c) : s \in {t \in shorter : Len(t) = n - 1}, c \in S}

(***************************************************************************)
(* JavaScript values.                                                      *)
(***************************************************************************)
Null == <<"<null>">>
None == [kind |-> "none"]

\* A completion: a returned value, or a thrown error.
Ret(v) == [err |-> "", value |-> v]
Throw(e) == [err |-> e, value |-> FALSE]

UpperCase == <<"A","B","C","D","E","F","G","H","I","J","K","L","M",
               "N","O","P","Q","R","S","T","U","V","W","X","Y","Z">>
LowerCase == <<"a","b","c","d","e","f","g","h","i","j","k","l","m",
               "n","o","p","q","r","s","t","u","v","w","x","y","z">>

\* String.prototype.toLowerCase on one character.
ToLowerChar(c) ==
    IF \E i \in 1..26 : UpperCase[i] = c
    THEN LowerCase[CHOOSE i \in 1..26 : UpperCase[i] = c]
    ELSE c

\* The canonicalisation the i flag compares characters by (toUpperCase).
Canonicalize(c) ==
    IF \E i \in 1..26 : LowerCase[i] = c
    THEN UpperCase[CHOOSE i \in 1..26 : LowerCase[i] = c]
    ELSE c

ToLowerCase(s) == [i \in 1..Len(s) |-> ToLowerChar(s[i])]

StartsWith(s, p) == Len(s) >= Len(p) /\ SubSeq(s, 1, Len(p)) = p

Contains(s, p) ==
    \E i \in 1..(Len(s) - Len(p) + 1) : SubSeq(s, i, i + Len(p) - 1) = p

RECURSIVE Flatten(_)
Flatten(ss) == IF ss = <<>> THEN <<>> ELSE Head(ss) \o Flatten(Tail(ss))

(***************************************************************************)
(* wildcardToRegex, index.js 24-29.                                        *)
(***************************************************************************)
\* The character class [.+^${}()|[\]\\] of the first replace.
EscapedChars == {".", "+", "^", "$", "{", "}", "(", ")", "|", "[", "]", "\\"}

\* .replace(/[.+^${}()|[\]\\]/g, '\\$&')
EscapeSpecials(pattern) ==
    Flatten([i \in 1..Len(pattern) |->
        IF pattern[i] \in EscapedChars THEN <<"\\", pattern[i]>> ELSE <<pattern[i]>>])

\* .replace(/\*/g, '.*')
StarToDotStar(pattern) ==
    Flatten([i \in 1..Len(pattern) |->
        IF pattern[i] = "*" THEN <<".", "*">> ELSE <<pattern[i]>>])

wildcardToRegex(pattern) == StarToDotStar(EscapeSpecials(pattern))

(***************************************************************************)
(* new RegExp(source, 'i') and RegExp.prototype.test, for the sources the  *)
(* model builds: literal characters, '.', '\c', '^', '$' and the           *)
(* quantifiers '*' and '?' (each optionally followed by a lazy '?').       *)
(***************************************************************************)
LineTerminators == {"\n", "\r"}

QuantifierChars == {"*", "?"}

\* The quantifier that starts at src[j], and the index after it.
QuantAt(src, j) ==
    IF j > Len(src) \/ src[j] \notin QuantifierChars
    THEN [q |-> "one", next |-> j]
    ELSE LET q == IF src[j] = "*" THEN "star" ELSE "opt"
             lazy == j + 1 <= Len(src) /\ src[j + 1] = "?"
         IN  [q |-> q, next |-> IF lazy THEN j + 2 ELSE j + 1]

RECURSIVE ParseRegExp(_, _, _)
ParseRegExp(src, i, terms) ==
    IF i > Len(src) THEN Ret(terms)
    ELSE LET c == src[i] IN
         IF c \in QuantifierChars THEN Throw("SyntaxError")   \* nothing to repeat
         ELSE IF c = "^" \/ c = "$" THEN
            \* an assertion takes no quantifier
            ParseRegExp(src, i + 1,
                        Append(terms, [kind |-> IF c = "^" THEN "bol" ELSE "eol",
                                       ch |-> c, q |-> "one"]))
         ELSE IF c = "\\" THEN
            IF i = Len(src) THEN Throw("SyntaxError")         \* \ at end of pattern
            ELSE LET qa == QuantAt(src, i + 2) IN
                 ParseRegExp(src, qa.next,
                             Append(terms, [kind |-> "lit", ch |-> src[i + 1], q |-> qa.q]))
         ELSE LET qa == QuantAt(src, i + 1) IN
              ParseRegExp(src, qa.next,
                          Append(terms, [kind |-> IF c = "." THEN "any" ELSE "lit",
                                         ch |-> c, q |-> qa.q]))

CharMatches(t, c, ignoreCase) ==
    IF t.kind = "any" THEN c \notin LineTerminators
    ELSE IF ignoreCase THEN Canonicalize(t.ch) = Canonicalize(c)
    ELSE t.ch = c

\* Whether terms[ti..] match s from position si on.
RECURSIVE MatchHere(_, _, _, _, _)
MatchHere(terms, ti, s, si, ic) ==
    IF ti > Len(terms) THEN TRUE
    ELSE LET t == terms[ti]
             step == si <= Len(s) /\ CharMatches(t, s[si], ic)
         IN  CASE t.kind = "bol" -> si = 1 /\ MatchHere(terms, ti + 1, s, si, ic)
               [] t.kind = "eol" -> si = Len(s) + 1 /\ MatchHere(terms, ti + 1, s, si, ic)
               [] t.q = "one" -> step /\ MatchHere(terms, ti + 1, s, si + 1, ic)
               [] t.q = "opt" -> \/ step /\ MatchHere(terms, ti + 1, s, si + 1, ic)
                                 \/ MatchHere(terms, ti + 1, s, si, ic)
               [] OTHER -> \/ MatchHere(terms, ti + 1, s, si, ic)
                           \/ step /\ MatchHere(terms, ti, s, si + 1, ic)

\* new RegExp(src, flags).test(s); ignoreCase is the i flag.
TestCompiled(re, s, ignoreCase) ==
    IF re.err # "" THEN re
    ELSE Ret(\E start \in 1..(Len(s) + 1) : MatchHere(re.value, 1, s, start, ignoreCase))

RegExpTest(src, s, ignoreCase) == TestCompiled(ParseRegExp(src, 1, <<>>), s, ignoreCase)

(***************************************************************************)
(* isMatched, index.js 42-56.                                              *)
(***************************************************************************)
\* The callback of listing.some, index.js 47-55.
PatternTest(pattern, uri) ==
    RegExpTest(IF \E i \in 1..Len(pattern) : pattern[i] = "*"
               THEN <<"^">> \o wildcardToRegex(pattern) \o <<"$">>
               ELSE pattern,
               uri, TRUE)

\* Array.prototype.some: the first pattern that matches or throws decides.
RECURSIVE SomePattern(_, _, _)
RECURSIVE SomeAfter(_, _, _, _)
SomePattern(listing, i, uri) ==
    IF i > Len(listing) THEN Ret(FALSE)
    ELSE SomeAfter(listing, i, uri, PatternTest(listing[i], uri))

\* r is what the callback returned for listing[i].
SomeAfter(listing, i, uri, r) ==
    IF r.err # "" \/ r.value THEN r ELSE SomePattern(listing, i + 1, uri)

isMatched(uri, listing) ==
    IF uri = <<>> \/ uri = Null \/ Len(listing) = 0
    THEN Ret(Len(listing) = 0)
    ELSE SomePattern(listing, 1, uri)

(***************************************************************************)
(* isAccessAllowed, index.js 59-83.  A check whose isMatched throws ends   *)
(* the call with that error; the checks after it are not evaluated.        *)
(***************************************************************************)
\* The four tests in the order of index.js 63-80: a test with a non-empty
\* list whose isMatched equals denyOn returns false.
PolicyChecks(targetUrl, originHeader, accessLists) ==
    << [uri |-> originHeader, listing |-> accessLists.blacklistOrigins, denyOn |-> TRUE],
       [uri |-> targetUrl, listing |-> accessLists.blacklistUrls, denyOn |-> TRUE],
       [uri |-> originHeader, listing |-> accessLists.whitelistOrigins, denyOn |-> FALSE],
       [uri |-> targetUrl, listing |-> accessLists.whitelistUrls, denyOn |-> FALSE] >>

RECURSIVE RunChecks(_, _)
RECURSIVE CheckAfter(_, _, _)
RunChecks(checks, i) ==
    IF i > Len(checks) THEN Ret(TRUE)
    ELSE IF Len(checks[i].listing) = 0 THEN RunChecks(checks, i + 1)
    ELSE CheckAfter(checks, i, isMatched(checks[i].uri, checks[i].listing))

\* m is what isMatched returned for checks[i].
CheckAfter(checks, i, m) ==
    IF m.err # "" THEN m
    ELSE IF m.value = checks[i].denyOn THEN Ret(FALSE)
    ELSE RunChecks(checks, i + 1)

\* The whitelist of origins consulted first: an origin on it is let through.
isAccessAllowedWhitelistFirst(targetUrl, originHeader, accessLists) ==
    IF /\ Len(accessLists.whitelistOrigins) > 0
       /\ isMatched(originHeader, accessLists.whitelistOrigins) = Ret(TRUE)
    THEN Ret(TRUE)
    ELSE RunChecks(PolicyChecks(targetUrl, originHeader, accessLists), 1)

isAccessAllowed(targetUrl, originHeader, accessLists) ==
    RunChecks(PolicyChecks(targetUrl, originHeader, accessLists), 1)

(***************************************************************************)
(* Header names, property keys and literal strings of index.js.            *)
(***************************************************************************)
H_origin == <<"o","r","i","g","i","n">>
H_referer == <<"r","e","f","e","r","e","r">>
H_cf_ipcountry == <<"c","f","-","i","p","c","o","u","n","t","r","y">>
H_x_forwarded_for == <<"x","-","f","o","r","w","a","r","d","e","d","-","f","o","r">>
H_x_cors_headers == <<"x","-","c","o","r","s","-","h","e","a","d","e","r","s">>
H_accept == <<"a","c","c","e","p","t">>
H_proto == <<"_","_","p","r","o","t","o","_","_">>
H_acr_method == <<"a","c","c","e","s","s","-","c","o","n","t","r","o","l","-","r","e","q","u","e","s","t","-","m","e","t","h","o","d">>
H_acr_headers == <<"a","c","c","e","s","s","-","c","o","n","t","r","o","l","-","r","e","q","u","e","s","t","-","h","e","a","d","e","r","s">>
H_cf_connecting_ip == <<"c","f","-","c","o","n","n","e","c","t","i","n","g","-","i","p">>
H_x_content_type_options == <<"x","-","c","o","n","t","e","n","t","-","t","y","p","e","-","o","p","t","i","o","n","s">>
H_content_type == <<"c","o","n","t","e","n","t","-","t","y","p","e">>
H_ac_allow_origin == <<"a","c","c","e","s","s","-","c","o","n","t","r","o","l","-","a","l","l","o","w","-","o","r","i","g","i","n">>
H_ac_allow_methods == <<"a","c","c","e","s","s","-","c","o","n","t","r","o","l","-","a","l","l","o","w","-","m","e","t","h","o","d","s">>
H_ac_allow_headers == <<"a","c","c","e","s","s","-","c","o","n","t","r","o","l","-","a","l","l","o","w","-","h","e","a","d","e","r","s">>
H_ac_expose_headers == <<"a","c","c","e","s","s","-","c","o","n","t","r","o","l","-","e","x","p","o","s","e","-","h","e","a","d","e","r","s">>
H_cors_received_headers == <<"c","o","r","s","-","r","e","c","e","i","v","e","d","-","h","e","a","d","e","r","s">>
K_Accept == <<"A","c","c","e","p","t">>
K_Origin == <<"O","r","i","g","i","n">>
S_null == <<"n","u","l","l">>
S_text_html == <<"t","e","x","t","/","h","t","m","l">>
S_object == <<"[","o","b","j","e","c","t"," ","O","b","j","e","c","t","]">>
\* The five patterns of key.match, index.js 127-131.
RE_origin == <<"^","o","r","i","g","i","n">>
RE_eferer == <<"e","f","e","r","e","r">>
RE_cf == <<"^","c","f","-">>
RE_x_forw == <<"^","x","-","f","o","r","w">>
RE_x_cors_headers == <<"^","x","-","c","o","r","s","-","h","e","a","d","e","r","s">>

\* The printable ASCII characters, 0x20 to 0x7E, in code order ("<grave>"
\* stands for the grave accent, 0x60).
Printable == <<" ","!","\"","#","$","%","&","'","(",")","*","+",",","-",".","/","0","1","2","3","4","5","6","7","8","9",":",";","<","=",">","?","@","A","B","C","D","E","F","G","H","I","J","K","L","M","N","O","P","Q","R","S","T","U","V","W","X","Y","Z","[","\\","]","^","_","<grave>","a","b","c","d","e","f","g","h","i","j","k","l","m","n","o","p","q","r","s","t","u","v","w","x","y","z","{","|","}","~">>

Digits == <<"0","1","2","3","4","5","6","7","8","9">>
HexDigits == Digits \o <<"a","b","c","d","e","f">>

IsDigit(c) == \E i \in 1..Len(Digits) : Digits[i] = c

\* Number.prototype.toString of a natural number.
RECURSIVE DecimalString(_)
DecimalString(n) ==
    IF n < Len(Digits) THEN <<Digits[n + 1]>>
    ELSE Append(DecimalString(n \div Len(Digits)), Digits[(n % Len(Digits)) + 1])

\* Array.prototype.join
RECURSIVE Join(_, _)
Join(parts, sep) ==
    IF parts = <<>> THEN <<>>
    ELSE IF Len(parts) = 1 THEN parts[1]
    ELSE parts[1] \o sep \o Join(Tail(parts), sep)

(***************************************************************************)
(* decodeURIComponent, as index.js 109 calls it twice.  A byte of 0x80 or  *)
(* more is taken to be malformed: the queries of the model hold no lead    *)
(* byte of a multi-byte sequence.                                          *)
(***************************************************************************)
IsHex(c) == \E i \in 1..Len(HexDigits) : HexDigits[i] = ToLowerChar(c)

HexVal(c) == (CHOOSE i \in 1..Len(HexDigits) : HexDigits[i] = ToLowerChar(c)) - 1

CharOfByte(b) ==
    CASE b \in 32..126 -> Printable[b - 31]
      [] b = 9 -> "\t"
      [] b = 10 -> "\n"
      [] b = 13 -> "\r"
      [] OTHER -> "<control>"

RECURSIVE DecodeFrom(_, _, _)
DecodeFrom(s, i, acc) ==
    IF i > Len(s) THEN Ret(acc)
    ELSE IF s[i] # "%" THEN DecodeFrom(s, i + 1, Append(acc, s[i]))
    ELSE IF i + 2 > Len(s) \/ ~IsHex(s[i + 1]) \/ ~IsHex(s[i + 2]) THEN Throw("URIError")
    ELSE LET b == 16 * HexVal(s[i + 1]) + HexVal(s[i + 2]) IN
         IF b >= 128 THEN Throw("URIError")
         ELSE DecodeFrom(s, i + 3, Append(acc, CharOfByte(b)))

decodeURIComponent(s) == DecodeFrom(s, 1, <<>>)

\* decodeURIComponent(decodeURIComponent(originUrl.search.substr(1)))
decodeAgain(inner) == IF inner.err # "" THEN inner ELSE DecodeFrom(inner.value, 1, <<>>)

decodeTargetUrl(search) ==
    decodeAgain(decodeURIComponent(IF search = <<>> THEN <<>> ELSE Tail(search)))

(***************************************************************************)
(* JavaScript values and plain objects.  An object is the sequence of its  *)
(* own properties [k, v] in insertion order.  (Properties whose keys are   *)
(* array indices enumerate first; such keys never meet another key of the  *)
(* same header name, so the order is not observable in the Headers built   *)
(* from the object.)                                                       *)
(***************************************************************************)
JSNull == [t |-> "null", s |-> <<>>, entries |-> <<>>]
JSString(s) == [t |-> "string", s |-> s, entries |-> <<>>]
JSNumber(s) == [t |-> "number", s |-> s, entries |-> <<>>]
JSObject(entries) == [t |-> "object", s |-> <<>>, entries |-> entries]

\* ToString, as the Headers methods apply it to a value.
ToStringJS(v) ==
    CASE v.t = "string" -> v.s
      [] v.t = "number" -> v.s
      [] v.t = "null" -> S_null
      [] OTHER -> S_object

HasKey(obj, k) == \E i \in 1..Len(obj) : obj[i].k = k

\* CreateDataProperty: an own property whatever the key (JSON.parse).
DefineProperty(obj, k, v) ==
    IF HasKey(obj, k)
    THEN [i \in 1..Len(obj) |-> IF obj[i].k = k THEN [k |-> k, v |-> v] ELSE obj[i]]
    ELSE Append(obj, [k |-> k, v |-> v])

\* obj[k] = v on an object literal: the key __proto__ runs the setter of
\* Object.prototype, which creates no own property.
PropertySet(obj, k, v) ==
    IF k = H_proto THEN obj ELSE DefineProperty(obj, k, v)

\* Object.entries of a non-null value.
ObjectEntries(v) ==
    CASE v.t = "object" -> v.entries
      [] v.t = "string" ->
            [i \in 1..Len(v.s) |-> [k |-> DecimalString(i - 1), v |-> JSString(<<v.s[i]>>)]]
      [] OTHER -> <<>>

(***************************************************************************)
(* JSON.parse and JSON.stringify, for texts without white space and        *)
(* without escapes other than \" \\ \/: null, numbers of digits, strings,  *)
(* objects.                                                                *)
(***************************************************************************)
Fail == [ok |-> FALSE, value |-> JSNull, next |-> 0]
Parsed(v, next) == [ok |-> TRUE, value |-> v, next |-> next]

RECURSIVE ReadString(_, _, _)
ReadString(text, j, acc) ==
    IF j > Len(text) THEN Fail
    ELSE IF text[j] = "\"" THEN Parsed(JSString(acc), j + 1)
    ELSE IF text[j] = "\\"
         THEN IF j + 1 <= Len(text) /\ text[j + 1] \in {"\"", "\\", "/"}
              THEN ReadString(text, j + 2, Append(acc, text[j + 1]))
              ELSE Fail
    ELSE IF text[j] \in {"\n", "\r", "\t"} THEN Fail
    ELSE ReadString(text, j + 1, Append(acc, text[j]))

RECURSIVE ReadDigits(_, _, _)
ReadDigits(text, j, acc) ==
    IF j <= Len(text) /\ IsDigit(text[j])
    THEN ReadDigits(text, j + 1, Append(acc, text[j]))
    ELSE Parsed(JSNumber(acc), j)

RECURSIVE ReadValue(_, _)
RECURSIVE ReadMembers(_, _, _)
RECURSIVE AfterKey(_, _, _)
RECURSIVE AfterMember(_, _, _, _)
ReadValue(text, i) ==
    IF i > Len(text) THEN Fail
    ELSE IF text[i] = "\"" THEN ReadString(text, i + 1, <<>>)
    ELSE IF text[i] = "{"
         THEN IF i + 1 <= Len(text) /\ text[i + 1] = "}"
              THEN Parsed(JSObject(<<>>), i + 2)
              ELSE ReadMembers(text, i + 1, <<>>)
    ELSE IF i + 3 <= Len(text) /\ SubSeq(text, i, i + 3) = S_null THEN Parsed(JSNull, i + 4)
    ELSE IF IsDigit(text[i])
         THEN IF text[i] = "0" /\ i + 1 <= Len(text) /\ IsDigit(text[i + 1])
              THEN Fail
              ELSE ReadDigits(text, i, <<>>)
    ELSE Fail

\* member (',' member)* '}' from text[i]
ReadMembers(text, i, entries) ==
    IF i > Len(text) \/ text[i] # "\"" THEN Fail
    ELSE AfterKey(text, entries, ReadString(text, i + 1, <<>>))

AfterKey(text, entries, key) ==
    IF ~key.ok \/ key.next > Len(text) \/ text[key.next] # ":" THEN Fail
    ELSE AfterMember(text, entries, key, ReadValue(text, key.next + 1))

AfterMember(text, entries, key, val) ==
    IF ~val.ok \/ val.next > Len(text) THEN Fail
    ELSE IF text[val.next] = "}"
         THEN Parsed(JSObject(DefineProperty(entries, key.value.s, val.value)), val.next + 1)
    ELSE IF text[val.next] = ","
         THEN ReadMembers(text, val.next + 1,
                          DefineProperty(entries, key.value.s, val.value))
    ELSE Fail

WholeText(text, v) ==
    IF v.ok /\ v.next = Len(text) + 1 THEN Ret(v.value) ELSE Throw("SyntaxError")

JSONParse(text) == WholeText(text, ReadValue(text, 1))

\* QuoteJSONString
JSONQuote(s) ==
    <<"\"">> \o Flatten([i \in 1..Len(s) |->
                 IF s[i] \in {"\"", "\\"} THEN <<"\\", s[i]>> ELSE <<s[i]>>]) \o <<"\"">>

RECURSIVE JSONStringify(_)
JSONStringify(v) ==
    CASE v.t = "string" -> JSONQuote(v.s)
      [] v.t = "number" -> v.s
      [] v.t = "null" -> S_null
      [] OTHER ->
            <<"{">> \o Join([i \in 1..Len(v.entries) |->
                          JSONQuote(v.entries[i].k) \o <<":">> \o JSONStringify(v.entries[i].v)],
                      <<",">>) \o <<"}">>

(***************************************************************************)
(* The Headers class: a map from lower-cased names to one combined value.  *)
(***************************************************************************)
EmptyHeaders == [n \in {} |-> <<>>]

Letters == {UpperCase[i] : i \in 1..26} \cup {LowerCase[i] : i \in 1..26}

\* The characters of an HTTP token.
TokenChars ==
    Letters \cup {Digits[i] : i \in 1..10}
            \cup {"!", "#", "$", "%", "&", "'", "*", "+", "-", ".", "^", "_", "<grave>", "|", "~"}

IsHeaderName(name) == Len(name) > 0 /\ \A i \in 1..Len(name) : name[i] \in TokenChars

IsHeaderValue(value) == \A i \in 1..Len(value) : value[i] \notin {"\n", "\r"}

\* A null argument is converted to the string "null".
ToByteString(value) == IF value = Null THEN S_null ELSE value

HeadersGet(h, name) ==
    IF ToLowerCase(name) \in DOMAIN h THEN h[ToLowerCase(name)] ELSE Null

HeadersHas(h, name) == ToLowerCase(name) \in DOMAIN h

HeadersSet(h, name, value) ==
    [n \in DOMAIN h \cup {ToLowerCase(name)} |->
        IF n = ToLowerCase(name) THEN ToByteString(value) ELSE h[n]]

HeadersDelete(h, name) == [n \in DOMAIN h \ {ToLowerCase(name)} |-> h[n]]

\* Headers.prototype.append: a second value of a name is combined with ", ".
HeadersAppend(h, name, value) ==
    [n \in DOMAIN h \cup {ToLowerCase(name)} |->
        IF n # ToLowerCase(name) THEN h[n]
        ELSE IF n \in DOMAIN h THEN h[n] \o <<",", " ">> \o value
        ELSE value]

CharCode(c) == (CHOOSE i \in 1..Len(Printable) : Printable[i] = c) + 31

RECURSIVE NameBefore(_, _)
NameBefore(a, b) ==
    IF a = <<>> THEN b # <<>>
    ELSE IF b = <<>> THEN FALSE
    ELSE IF Head(a) = Head(b) THEN NameBefore(Tail(a), Tail(b))
    ELSE CharCode(Head(a)) < CharCode(Head(b))

RECURSIVE SortedNames(_)
SortedNames(S) ==
    IF S = {} THEN <<>>
    ELSE LET first == CHOOSE a \in S : \A b \in S \ {a} : NameBefore(a, b)
         IN  <<first>> \o SortedNames(S \ {first})

\* Headers.prototype.entries: the pairs, sorted by name.
HeadersEntries(h) ==
    LET names == SortedNames(DOMAIN h)
    IN  [i \in 1..Len(names) |-> [k |-> names[i], v |-> h[names[i]]]]

\* new Headers(init) from a plain object: each own property is appended.
RECURSIVE HeadersFill(_, _, _)
HeadersFill(obj, i, h) ==
    IF i > Len(obj) THEN Ret(h)
    ELSE LET name == obj[i].k
             value == ToStringJS(obj[i].v)
         IN  IF ~IsHeaderName(name) \/ ~IsHeaderValue(value) THEN Throw("TypeError")
             ELSE HeadersFill(obj, i + 1, HeadersAppend(h, name, value))

(***************************************************************************)
(* Idle values of the handler's variables.                                 *)
(***************************************************************************)
NoLists == [whitelistUrls |-> <<>>, blacklistUrls |-> <<>>,
            whitelistOrigins |-> <<>>, blacklistOrigins |-> <<>>]

HandlerIdle ==
    /\ pc = "idle"
    /\ envLists = NoLists
    /\ request = None
    /\ upstreamCalls = 0
    /\ outbound = None
    /\ upstream = None
    /\ response = None
    /\ thrown = ""

handlerVars == <<pc, envLists, request, upstreamCalls, outbound, upstream, response, thrown>>

(***************************************************************************)
(* The fetch handler, index.js 87-212.  request.cf (country, colo) only    *)
(* adds lines to the informational text and is left out.                   *)
(***************************************************************************)
isPreflightRequest(req) == req.method = "OPTIONS"

\* key.match(re) !== null; the pattern is compiled without flags.
KeyMatches(key, re) == RegExpTest(re, key, FALSE).value

\* The five patterns of index.js 127-131.
ExclusionPatterns == {RE_origin, RE_eferer, RE_cf, RE_x_forw, RE_x_cors_headers}

\* The filter without its Referer clause.
IsExcludedKeyNoReferer(key) ==
    \E re \in ExclusionPatterns \ {RE_eferer} : KeyMatches(key, re)

\* The negation of the condition of index.js 126-132: some key.match is not null.
IsExcludedKey(key) == \E re \in ExclusionPatterns : KeyMatches(key, re)

\* The loop of index.js 125-135 over request.headers.entries().
RECURSIVE CopyRetained(_, _, _)
CopyRetained(entries, i, filtered) ==
    IF i > Len(entries) THEN filtered
    ELSE CopyRetained(entries, i + 1,
            IF IsExcludedKey(entries[i].k) THEN filtered
            ELSE PropertySet(filtered, entries[i].k, JSString(entries[i].v)))

\* forEach((entry) => (obj[entry[0]] = entry[1])), index.js 138.
RECURSIVE AssignEntries(_, _, _)
AssignEntries(entries, i, obj) ==
    IF i > Len(entries) THEN obj
    ELSE AssignEntries(entries, i + 1, PropertySet(obj, entries[i].k, entries[i].v))

\* customHeaders after index.js 115-121: null, the parsed value, or, when
\* JSON.parse threw, still the header's text.
ParsedOrText(raw, parsed) == IF parsed.err = "" THEN parsed.value ELSE JSString(raw)

parseCustomHeaders(headers) ==
    IF HeadersGet(headers, H_x_cors_headers) = Null THEN JSNull
    ELSE ParsedOrText(HeadersGet(headers, H_x_cors_headers),
                      JSONParse(HeadersGet(headers, H_x_cors_headers)))

\* filteredHeaders after index.js 124-139.
filteredHeaders(headers, customHeaders) ==
    AssignEntries(IF customHeaders # JSNull THEN ObjectEntries(customHeaders) ELSE <<>>,
                  1, CopyRetained(HeadersEntries(headers), 1, <<>>))

\* The headers of new Request(request, {redirect, headers}), index.js 141-144.
newRequestHeaders(headers) ==
    HeadersFill(filteredHeaders(headers, parseCustomHeaders(headers)), 1, EmptyHeaders)

\* setupCORSHeaders without the removal of X-Content-Type-Options.
setupCORSHeadersKeepNosniff(headers, req) ==
    LET h1 == HeadersSet(headers, H_ac_allow_origin, HeadersGet(req.headers, H_origin)) IN
    IF isPreflightRequest(req)
    THEN LET h2 == HeadersSet(h1, H_ac_allow_methods, HeadersGet(req.headers, H_acr_method))
             requestedHeaders == HeadersGet(req.headers, H_acr_headers)
         IN  IF requestedHeaders # Null /\ requestedHeaders # <<>>
             THEN HeadersSet(h2, H_ac_allow_headers, requestedHeaders)
             ELSE h2
    ELSE h1

\* setupCORSHeaders, index.js 94-107.
setupCORSHeaders(headers, req) ==
    LET h1 == HeadersSet(headers, H_ac_allow_origin, HeadersGet(req.headers, H_origin)) IN
    IF isPreflightRequest(req)
    THEN LET h2 == HeadersSet(h1, H_ac_allow_methods, HeadersGet(req.headers, H_acr_method))
             requestedHeaders == HeadersGet(req.headers, H_acr_headers)
             h3 == IF requestedHeaders # Null /\ requestedHeaders # <<>>
                   THEN HeadersSet(h2, H_ac_allow_headers, requestedHeaders)
                   ELSE h2
         IN  HeadersDelete(h3, H_x_content_type_options)
    ELSE h1

\* allResponseHeaders after the loop of index.js 150-153.
allResponseHeaders(upHeaders) ==
    LET entries == HeadersEntries(upHeaders) IN
    AssignEntries([i \in 1..Len(entries) |->
                      [k |-> entries[i].k, v |-> JSString(entries[i].v)]], 1, <<>>)

\* exposedHeaders after index.js 148-154.
exposedHeaders(upHeaders) ==
    LET entries == HeadersEntries(upHeaders) IN
    Append([i \in 1..Len(entries) |-> entries[i].k], H_cors_received_headers)

\* responseHeaders after index.js 147-158.
proxyResponseHeaders(req, up) ==
    LET h1 == setupCORSHeaders(up.headers, req)
        h2 == HeadersSet(h1, H_ac_expose_headers, Join(exposedHeaders(up.headers), <<",">>))
    IN  HeadersSet(h2, H_cors_received_headers,
                   JSONStringify(JSObject(allResponseHeaders(up.headers))))

NullBodyStatuses == {101, 204, 205, 304}

\* new Response(body, init) in the Workers runtime: with a null body status
\* a body of some length is a TypeError, a body of length zero is taken as
\* no body.
NewResponse(body, init) ==
    IF init.status \notin 200..599 THEN Throw("RangeError")
    ELSE IF body # Null /\ body # <<>> /\ init.status \in NullBodyStatuses
         THEN Throw("TypeError")
    ELSE Ret([kind |-> "response", status |-> init.status, statusText |-> init.statusText,
              headers |-> init.headers,
              body |-> IF init.status \in NullBodyStatuses THEN Null ELSE body])

\* The Response of index.js 200-210.
ForbiddenResponse ==
    NewResponse(<<"Create your own CORS proxy">>,
                [status |-> 403, statusText |-> "Forbidden",
                 headers |-> HeadersSet(EmptyHeaders, H_content_type, S_text_html)])

\* The Response of index.js 170-197.
InfoText(originHeader, connectingIp, customHeaders) ==
    <<"CLOUDFLARE-CORS-ANYWHERE">>
      \o (IF originHeader # Null THEN <<"Origin: ">> \o originHeader ELSE <<>>)
      \o <<"IP: ">> \o ToByteString(connectingIp)
      \o (IF customHeaders # JSNull
          THEN <<"x-cors-headers: ">> \o JSONStringify(customHeaders) ELSE <<>>)

InfoResponse(req) ==
    NewResponse(InfoText(HeadersGet(req.headers, H_origin),
                         HeadersGet(req.headers, H_cf_connecting_ip),
                         parseCustomHeaders(req.headers)),
                [status |-> 200, statusText |-> "",
                 headers |-> setupCORSHeaders(EmptyHeaders, req)])

\* The upstream's status is not mirrored: every answer is 200 OK.
ProxyResponseAlwaysOK(req, up, responseBody) ==
    NewResponse(responseBody,
                [headers |-> proxyResponseHeaders(req, up), status |-> 200, statusText |-> "OK"])

\* The Response of index.js 160-167.
ProxyResponse(req, up, responseBody) ==
    NewResponse(responseBody,
                [headers |-> proxyResponseHeaders(req, up),
                 status |-> IF isPreflightRequest(req) THEN 200 ELSE up.status,
                 statusText |-> IF isPreflightRequest(req) THEN "OK" ELSE up.statusText])

hasTarget(req) == StartsWith(req.search, <<"?">>)

Threw(e) == [pc |-> "failed", thrown |-> e, response |-> None, outbound |-> None]

\* The handler returns the Response r, or throws what building it threw.
Returned(r) ==
    IF r.err # "" THEN Threw(r.err)
    ELSE [pc |-> "responded", thrown |-> "", response |-> r.value, outbound |-> None]

\* index.js 141-146, h the headers of newRequest: fetch(targetUrl, newRequest).
CallFetch(req, targetUrl, h) ==
    IF h.err # "" THEN Threw(h.err)
    ELSE [pc |-> "fetching", thrown |-> "", response |-> None,
          outbound |-> [kind |-> "request", url |-> targetUrl, method |-> req.method,
                        redirect |-> "follow", headers |-> h.value]]

\* index.js 114-211, allowed what isAccessAllowed returned.
AfterPolicy(req, targetUrl, allowed) ==
    IF allowed.err # "" THEN Threw(allowed.err)
    ELSE IF ~allowed.value THEN Returned(ForbiddenResponse)
    ELSE IF hasTarget(req) THEN CallFetch(req, targetUrl, newRequestHeaders(req.headers))
    ELSE Returned(InfoResponse(req))

\* index.js 109-114, targetUrl what the two decodeURIComponent calls returned.
AfterDecode(req, lists, targetUrl) ==
    IF targetUrl.err # "" THEN Threw(targetUrl.err)
    ELSE AfterPolicy(req, targetUrl.value,
                     isAccessAllowed(targetUrl.value, HeadersGet(req.headers, H_origin), lists))

\* What the handler does up to its first await: it throws, returns a
\* Response, or calls fetch(targetUrl, newRequest).
StartOutcome(req, lists) == AfterDecode(req, lists, decodeTargetUrl(req.search))

\* index.js 87-146: from the call of the handler to the call of fetch.
Start ==
    /\ pc = "received"
    /\ \E o \in {StartOutcome(request, envLists)} :
       /\ pc' = o.pc
       /\ thrown' = o.thrown
       /\ response' = o.response
       /\ outbound' = o.outbound
       /\ upstreamCalls' = IF o.pc = "fetching" THEN upstreamCalls + 1 ELSE upstreamCalls
    /\ UNCHANGED <<envLists, request, upstream, call, ret>>

\* The rejected fetch is called once more.
FetchRejectRetry ==
    /\ pc = "fetching"
    /\ upstreamCalls < 2
    /\ upstreamCalls' = upstreamCalls + 1
    /\ UNCHANGED <<pc, envLists, request, outbound, upstream, response, thrown, call, ret>>

\* await fetch(...) rejects (index.js 146): nothing catches it.
FetchReject ==
    /\ pc = "fetching"
    /\ pc' = "failed"
    /\ thrown' = "FetchError"
    /\ upstream' = [kind |-> "error"]
    /\ UNCHANGED <<envLists, request, upstreamCalls, outbound, response, call, ret>>

\* await fetch(...) resolves with a response of the pool (index.js 146-160):
\* a preflight is answered at once, otherwise the body is awaited.
FetchResolve(Pool) ==
    /\ pc = "fetching"
    /\ \E up \in Pool :
        /\ upstream' = up
        /\ IF isPreflightRequest(request)
           THEN \E r \in {ProxyResponse(request, up, Null)} :
                /\ pc' = IF r.err # "" THEN "failed" ELSE "responded"
                /\ thrown' = r.err
                /\ response' = IF r.err # "" THEN None ELSE r.value
           ELSE /\ pc' = "reading"
                /\ UNCHANGED <<thrown, response>>
    /\ UNCHANGED <<envLists, request, upstreamCalls, outbound, call, ret>>

\* await response.arrayBuffer() rejects (index.js 160).
BodyReject ==
    /\ pc = "reading"
    /\ pc' = "failed"
    /\ thrown' = "FetchError"
    /\ upstream' = [kind |-> "error"]
    /\ UNCHANGED <<envLists, request, upstreamCalls, outbound, response, call, ret>>

\* await response.arrayBuffer() resolves; the Response is built (index.js 160-167).
BodyResolve ==
    /\ pc = "reading"
    /\ \E r \in {ProxyResponse(request, upstream, upstream.body)} :
       /\ pc' = IF r.err # "" THEN "failed" ELSE "responded"
       /\ thrown' = r.err
       /\ response' = IF r.err # "" THEN None ELSE r.value
    /\ UNCHANGED <<envLists, request, upstreamCalls, outbound, upstream, call, ret>>

Handler(Pool) ==
    \/ Start
    \/ FetchResolve(Pool)
    \/ FetchReject
    \/ BodyResolve
    \/ BodyReject

\* The handler called with a request of Requests under lists of Lists.
InitHandler(Lists, Requests) ==
    /\ pc = "received"
    /\ envLists \in Lists
    /\ request \in Requests
    /\ upstreamCalls = 0
    /\ outbound = None
    /\ upstream = None
    /\ response = None
    /\ thrown = ""
    /\ call = None
    /\ ret = None

\* The Headers objects that give each name of choices one of its values, or
\* leave it out where the value is Null.
RECURSIVE AllHeaders(_)
AllHeaders(choices) ==
    IF choices = <<>> THEN {EmptyHeaders}
    ELSE {IF v = Null THEN h ELSE HeadersSet(h, Head(choices).name, v) :
            v \in Head(choices).values, h \in AllHeaders(Tail(choices))}

UpstreamResponses(statuses, headers, bodies) ==
    {[kind |-> "response", status |-> s.status, statusText |-> s.statusText,
      headers |-> h, body |-> b] : s \in statuses, h \in headers, b \in bodies}

Status200 == [status |-> 200, statusText |-> "OK"]
Status204 == [status |-> 204, statusText |-> "No Content"]
Status304 == [status |-> 304, statusText |-> "Not Modified"]
Status404 == [status |-> 404, statusText |-> "Not Found"]
Status500 == [status |-> 500, statusText |-> "Internal Server Error"]

\* The text of an x-cors-headers header naming one header.
CorsHeadersText(k, v) == JSONStringify(JSObject(<< [k |-> k, v |-> JSString(v)] >>))

(***************************************************************************)
(* Spec: requests under every policy outcome.  "?" in a list is a pattern  *)
(* new RegExp rejects; "?%" is a query decodeURIComponent rejects.         *)
(***************************************************************************)
SpecLists ==
    [whitelistUrls : {<<>>, << <<"a", "*">> >>},
     blacklistUrls : {<<>>, << <<"b">> >>, << <<"?">> >>},
     whitelistOrigins : {<<>>, << <<"o">> >>, << <<"e", "*">>, <<"o">> >>},
     blacklistOrigins : {<<>>, << <<"e", "*">> >>}]

SpecRequests ==
    [method : {"GET", "OPTIONS"},
     search : {<<>>, <<"?", "a">>, <<"?", "b">>, <<"?", "%", "6", "1">>, <<"?", "%">>},
     headers : AllHeaders(<<
        [name |-> H_origin, values |-> {Null, <<"o">>, <<"e">>, <<"e", "o">>}],
        [name |-> H_x_cors_headers,
         values |-> {Null, CorsHeadersText(H_accept, <<"c">>), <<"{", "a">>}] >>)]

SpecPool ==
    UpstreamResponses({Status200, Status404},
                      AllHeaders(<< [name |-> H_content_type, values |-> {Null, <<"t">>}] >>),
                      {<<"b">>})

Init == InitHandler(SpecLists, SpecRequests)

Next == Handler(SpecPool)

Spec == Init /\ [][Next]_vars

(***************************************************************************)
(* SpecHeaders: allowed requests with every mix of incoming headers and    *)
(* x-cors-headers texts: objects, null, a string, a number, malformed      *)
(* texts, the empty text, a key that is no header name.                    *)
(***************************************************************************)
CorsTexts ==
    {Null,
     CorsHeadersText(H_accept, <<"c">>), CorsHeadersText(K_Accept, <<"c">>),
     CorsHeadersText(K_Origin, <<"c">>), CorsHeadersText(H_referer, <<"c">>),
     CorsHeadersText(H_x_forwarded_for, <<"c">>), CorsHeadersText(H_proto, <<"c">>),
     CorsHeadersText(<<"a", " ">>, <<"c">>),
     S_null, JSONQuote(<<"a", "b">>), <<"7">>,
     <<"{", "a">>, <<"{", "\"", "a", "\"", ":">>, <<>>}

HeadersRequests ==
    [method : {"GET", "OPTIONS"},
     search : {<<>>, <<"?", "a">>},
     headers : AllHeaders(<<
        [name |-> H_origin, values |-> {Null, <<"o">>}],
        [name |-> H_accept, values |-> {Null, <<"a">>}],
        [name |-> H_referer, values |-> {Null, <<"r">>}],
        [name |-> H_cf_ipcountry, values |-> {Null, <<"i">>}],
        [name |-> H_x_forwarded_for, values |-> {Null, <<"f">>}],
        [name |-> H_x_cors_headers, values |-> CorsTexts] >>)]

InitHeaders == InitHandler({NoLists}, HeadersRequests)

NextHeaders == Handler(SpecPool)

SpecHeaders == InitHeaders /\ [][NextHeaders]_vars

(***************************************************************************)
(* SpecResponse: allowed requests, preflight or not, against upstream      *)
(* responses with every mix of headers the composer reads or overwrites.   *)
(***************************************************************************)
ResponseRequests ==
    [method : {"GET", "OPTIONS"},
     search : {<<>>, <<"?", "a">>},
     headers : AllHeaders(<<
        [name |-> H_origin, values |-> {Null, <<"o">>}],
        [name |-> H_acr_method, values |-> {Null, <<"P">>}],
        [name |-> H_acr_headers, values |-> {Null, <<>>, <<"h">>}] >>)]

ResponsePool ==
    UpstreamResponses({Status200, Status404},
        AllHeaders(<<
            [name |-> H_content_type, values |-> {Null, <<"t">>}],
            [name |-> H_x_content_type_options, values |-> {Null, <<"n">>}],
            [name |-> H_ac_allow_origin, values |-> {Null, <<"*">>}],
            [name |-> H_ac_allow_headers, values |-> {Null, <<"u">>}],
            [name |-> H_ac_expose_headers, values |-> {Null, <<"x">>}],
            [name |-> H_cors_received_headers, values |-> {Null, <<"r">>}],
            [name |-> H_proto, values |-> {Null, <<"p">>}] >>),
        {<<"b">>})
    \cup UpstreamResponses({Status204}, {EmptyHeaders}, {<<>>})

InitResponse == InitHandler({NoLists}, ResponseRequests)

NextResponse == Handler(ResponsePool)

SpecResponse == InitResponse /\ [][NextResponse]_vars

(***************************************************************************)
(* SpecUrl: every query of up to MaxQueryLen characters over '%', '2',     *)
(* '5', 'a' (so %25, %2a, %22, %5a, ... and malformed escapes), under URL  *)
(* lists, against upstream statuses with and without a body.  The search   *)
(* of a URL is never the lone "?".                                         *)
(***************************************************************************)
MaxQueryLen == 5

QueryChars == {"%", "2", "5", "a"}

UrlRequests ==
    [method : {"GET", "OPTIONS"},
     search : {<<>>} \cup {<<"?">> \o q : q \in SeqsUpTo(QueryChars, MaxQueryLen) \ {<<>>}},
     headers : {EmptyHeaders}]

UrlLists ==
    [whitelistUrls : {<<>>, << <<"a", "*">> >>},
     blacklistUrls : {<<>>, << <<"Z">> >>},
     whitelistOrigins : {<<>>},
     blacklistOrigins : {<<>>}]

UrlPool ==
    UpstreamResponses({Status200, Status404, Status500}, {EmptyHeaders}, {<<"b">>})
    \cup UpstreamResponses({Status204, Status304}, {EmptyHeaders}, {<<>>})

InitUrl == InitHandler(UrlLists, UrlRequests)

NextUrl == Handler(UrlPool)

SpecUrl == InitUrl /\ [][NextUrl]_vars

(***************************************************************************)
(* SpecMatch: isMatched called with one pattern and one subject.           *)
(***************************************************************************)
PatChars == {"a", "B", "*", "?", "."}
SubjChars == {"a", "A", "b", "?", "\n"}

Patterns == SeqsUpTo(PatChars, MaxPatLen) \ {<<>>}
Subjects == SeqsUpTo(SubjChars, MaxSubjLen) \cup {Null}

InitMatch ==
    /\ HandlerIdle
    /\ call \in [fn : {"isMatched"}, uri : Subjects, listing : {<<p>> : p \in Patterns}]
    /\ ret = None

CallIsMatched ==
    /\ call.fn = "isMatched"
    /\ ret = None
    /\ ret' = [kind |-> "completion", c |-> isMatched(call.uri, call.listing)]
    /\ UNCHANGED <<handlerVars, call>>

NextMatch == CallIsMatched

SpecMatch == InitMatch /\ [][NextMatch]_vars

(***************************************************************************)
(* SpecPolicy: isAccessAllowed called with a target, an origin and four    *)
(* lists.  "?" is a pattern new RegExp rejects.                            *)
(***************************************************************************)
PolicyLists == {<<>>, << <<"a", "*">> >>, << <<"b">> >>, << <<"?">> >>,
                << <<"b">>, <<"a", "*">> >>, << <<"a", "*">>, <<"?">> >>}
PolicyOrigins == {Null, <<"a">>, <<"b">>, <<"a", "b">>, <<"c">>}
PolicyTargets == {<<>>, <<"a">>, <<"b">>, <<"a", "b">>, <<"c">>}

InitPolicy ==
    /\ HandlerIdle
    /\ call \in [fn : {"isAccessAllowed"}, targetUrl : PolicyTargets,
                 originHeader : PolicyOrigins,
                 accessLists : [whitelistUrls : PolicyLists, blacklistUrls : PolicyLists,
                                whitelistOrigins : PolicyLists, blacklistOrigins : PolicyLists]]
    /\ ret = None

CallIsAccessAllowed ==
    /\ call.fn = "isAccessAllowed"
    /\ ret = None
    /\ ret' = [kind |-> "completion",
               c |-> isAccessAllowed(call.targetUrl, call.originHeader, call.accessLists)]
    /\ UNCHANGED <<handlerVars, call>>

NextPolicy == CallIsAccessAllowed

SpecPolicy == InitPolicy /\ [][NextPolicy]_vars

(***************************************************************************)
(* Claims about the pattern matcher and the access policy.                 *)
(***************************************************************************)
\* A blacklist check passes when the list is empty or the subject does not match it.
BlacklistPasses(subject, listing) ==
    Len(listing) = 0 \/ isMatched(subject, listing) = Ret(FALSE)

\* A whitelist check passes when the list is empty or the subject matches it.
WhitelistPasses(subject, listing) ==
    Len(listing) = 0 \/ isMatched(subject, listing) = Ret(TRUE)

AllFourChecksPass(targetUrl, originHeader, accessLists) ==
    /\ BlacklistPasses(originHeader, accessLists.blacklistOrigins)
    /\ BlacklistPasses(targetUrl, accessLists.blacklistUrls)
    /\ WhitelistPasses(originHeader, accessLists.whitelistOrigins)
    /\ WhitelistPasses(targetUrl, accessLists.whitelistUrls)

\* C1: isAccessAllowed returns true exactly when all four checks pass (the
\* origin and the target pass their blacklists, and match their whitelists
\* where one is configured); an origin on both origin lists is denied.
C1_AllowedIffAllFourChecksPass ==
    (ret # None /\ call.fn = "isAccessAllowed") =>
        /\ (ret.c = Ret(TRUE)) <=>
              AllFourChecksPass(call.targetUrl, call.originHeader, call.accessLists)
        /\ (/\ isMatched(call.originHeader, call.accessLists.whitelistOrigins) = Ret(TRUE)
            /\ isMatched(call.originHeader, call.accessLists.blacklistOrigins) = Ret(TRUE)
            /\ Len(call.accessLists.blacklistOrigins) > 0)
           => ret.c = Ret(FALSE)

\* An origin that matches both its whitelist and its blacklist was denied,
\* with a target that passes both URL lists.
C1_Witness ==
    /\ ret # None /\ call.fn = "isAccessAllowed"
    /\ call.accessLists.whitelistOrigins = << <<"a", "*">> >>
    /\ call.accessLists.blacklistOrigins = << <<"b">>, <<"a", "*">> >>
    /\ call.accessLists.whitelistUrls = << <<"b">> >>
    /\ call.accessLists.blacklistUrls = << <<"a", "*">> >>
    /\ call.originHeader = <<"a", "b">>
    /\ call.targetUrl = <<"b">>
    /\ ret.c = Ret(FALSE)

\* The wildcard reading of a pattern: '*' stands for any run of characters,
\* every other character for itself (case-insensitively), the whole subject.
RECURSIVE GlobMatches(_, _, _, _)
GlobMatches(pattern, i, subject, j) ==
    IF i > Len(pattern) THEN j > Len(subject)
    ELSE IF pattern[i] = "*"
         THEN \/ GlobMatches(pattern, i + 1, subject, j)
              \/ j <= Len(subject) /\ GlobMatches(pattern, i, subject, j + 1)
         ELSE /\ j <= Len(subject)
              /\ Canonicalize(pattern[i]) = Canonicalize(subject[j])
              /\ GlobMatches(pattern, i + 1, subject, j + 1)

HasStar(pattern) == \E i \in 1..Len(pattern) : pattern[i] = "*"

\* C9: for a pattern with '*' and any subject string, isMatched holds exactly
\* when the whole subject equals the pattern with each '*' replaced by some
\* run of characters, every other pattern character matching only itself.
C9_WildcardIsAnchoredGlob ==
    (ret # None /\ call.fn = "isMatched" /\ call.uri # Null
        /\ HasStar(call.listing[1])) =>
        ret.c = Ret(GlobMatches(call.listing[1], 1, call.uri, 1))

\* Where the code and the wildcard reading agree: no '?' in the pattern, a
\* non-empty subject without line terminators.
WildcardGlobWhereEscaped ==
    (ret # None /\ call.fn = "isMatched" /\ call.uri # Null /\ call.uri # <<>>
        /\ HasStar(call.listing[1])
        /\ \A i \in 1..Len(call.listing[1]) : call.listing[1][i] # "?"
        /\ \A j \in 1..Len(call.uri) : call.uri[j] \notin LineTerminators) =>
        ret.c = Ret(GlobMatches(call.listing[1], 1, call.uri, 1))

(***************************************************************************)
(* Claims about the handler.                                               *)
(***************************************************************************)
originOf(req) == HeadersGet(req.headers, H_origin)

\* The two decodings succeeded and the policy allowed the request.
PolicyAllowed ==
    /\ decodeTargetUrl(request.search).err = ""
    /\ isAccessAllowed(decodeTargetUrl(request.search).value, originOf(request), envLists)
          = Ret(TRUE)

\* The two decodings succeeded and the policy denied the request.
PolicyDenied ==
    /\ decodeTargetUrl(request.search).err = ""
    /\ isAccessAllowed(decodeTargetUrl(request.search).value, originOf(request), envLists)
          = Ret(FALSE)

\* C10: the upstream fetch is called at most once, and only for an allowed
\* request with a target; a denied request ends in 403 Forbidden and the
\* informational path in a response, both without an upstream call; a
\* failed upstream call fails the request: no second call, no response.
C10_UpstreamCalledAtMostOnce ==
    /\ upstreamCalls <= 1
    /\ upstreamCalls = 1 => (PolicyAllowed /\ hasTarget(request))
    /\ (pc # "received" /\ PolicyDenied) =>
          /\ pc = "responded"
          /\ response.status = 403 /\ response.statusText = "Forbidden"
          /\ upstreamCalls = 0
    /\ (pc # "received" /\ PolicyAllowed /\ ~hasTarget(request)) =>
          (pc = "responded" /\ response.status = 200 /\ upstreamCalls = 0)
    /\ (upstream # None /\ upstream.kind = "error") =>
          (pc = "failed" /\ thrown # "" /\ response = None /\ upstreamCalls = 1)
    /\ pc = "failed" => response = None

\* The one upstream call of an allowed request failed, and so did the request.
C10_Witness ==
    /\ pc = "failed" /\ upstreamCalls = 1
    /\ upstream # None /\ upstream.kind = "error"
    /\ originOf(request) = <<"o">>
    /\ envLists.blacklistOrigins = << <<"e", "*">> >>

OriginPassesOriginLists ==
    /\ BlacklistPasses(originOf(request), envLists.blacklistOrigins)
    /\ WhitelistPasses(originOf(request), envLists.whitelistOrigins)

\* C8: a request without a target whose origin passes the origin lists gets
\* the 200 informational response, without an upstream call, whatever the
\* URL lists are.
C8_NoTargetGetsInfo ==
    (pc # "received" /\ request.search = <<>> /\ OriginPassesOriginLists) =>
        (pc = "responded" /\ response.status = 200 /\ upstreamCalls = 0)

\* What holds of the code: the same, where no URL whitelist is configured.
NoTargetGetsInfoWithoutUrlWhitelist ==
    (pc # "received" /\ request.search = <<>> /\ OriginPassesOriginLists
        /\ envLists.whitelistUrls = <<>>) =>
        (pc = "responded" /\ response.status = 200 /\ upstreamCalls = 0)

\* The five exclusion rules, on a name compared case-insensitively.
ExcludedName(name) ==
    \/ StartsWith(ToLowerCase(name), H_origin)
    \/ Contains(ToLowerCase(name), RE_eferer)
    \/ StartsWith(ToLowerCase(name), <<"c", "f", "-">>)
    \/ StartsWith(ToLowerCase(name), <<"x", "-", "f", "o", "r", "w">>)
    \/ StartsWith(ToLowerCase(name), H_x_cors_headers)

\* The entries index.js 138 assigns: those of customHeaders, when not null.
CustomEntries(req) ==
    IF parseCustomHeaders(req.headers) = JSNull THEN <<>>
    ELSE ObjectEntries(parseCustomHeaders(req.headers))

\* The names x-cors-headers supplies, lower-cased.
CustomNames(req) ==
    {ToLowerCase(CustomEntries(req)[i].k) : i \in 1..Len(CustomEntries(req))}

\* The headers the entries of x-cors-headers make on their own.
CustomOnlyHeaders(req) == HeadersFill(AssignEntries(CustomEntries(req), 1, <<>>), 1, EmptyHeaders)

LastCustomValue(req, n) ==
    ToStringJS(CustomEntries(req)[
        CHOOSE i \in 1..Len(CustomEntries(req)) :
            /\ ToLowerCase(CustomEntries(req)[i].k) = n
            /\ \A j \in (i + 1)..Len(CustomEntries(req)) :
                  ToLowerCase(CustomEntries(req)[j].k) # n].v)

\* C3: a name both among the retained incoming headers and in the parsed
\* x-cors-headers object (compared case-insensitively) is in the outbound
\* set with exactly the custom value.
C3_CustomOverridesRetained ==
    (outbound # None /\ parseCustomHeaders(request.headers).t = "object") =>
        \A n \in DOMAIN request.headers :
            (~ExcludedName(n) /\ n \in CustomNames(request)) =>
                /\ n \in DOMAIN outbound.headers
                /\ outbound.headers[n] = LastCustomValue(request, n)

\* What holds of the code: the same, where the custom name is spelled as the
\* incoming one (lower case).
CustomOverridesSameSpelling ==
    (outbound # None /\ parseCustomHeaders(request.headers).t = "object") =>
        \A n \in DOMAIN request.headers :
            (/\ ~ExcludedName(n)
             /\ \A i \in 1..Len(CustomEntries(request)) :
                   ToLowerCase(CustomEntries(request)[i].k) = n
                      => CustomEntries(request)[i].k = n
             /\ n \in CustomNames(request)) =>
                /\ n \in DOMAIN outbound.headers
                /\ outbound.headers[n] = LastCustomValue(request, n)

\* The request without its x-cors-headers header.
WithoutCorsHeaders(req) ==
    [req EXCEPT !.headers = HeadersDelete(req.headers, H_x_cors_headers)]

\* C4: an allowed request with a target whose x-cors-headers is not valid
\* JSON is forwarded, with the headers the same request without
\* x-cors-headers is forwarded with.
C4_MalformedCustomIsIgnored ==
    (/\ pc # "received" /\ hasTarget(request) /\ PolicyAllowed
     /\ HeadersHas(request.headers, H_x_cors_headers)
     /\ JSONParse(HeadersGet(request.headers, H_x_cors_headers)).err # "") =>
        /\ outbound # None
        /\ outbound.headers = newRequestHeaders(WithoutCorsHeaders(request).headers).value

\* The mapping a JSON object text decodes to.
DecodedMap(text) ==
    LET entries == JSONParse(text).value.entries IN
    [n \in {entries[i].k : i \in 1..Len(entries)} |->
        (entries[CHOOSE i \in 1..Len(entries) : entries[i].k = n].v).s]

\* C5: after a non-preflight proxied call, cors-received-headers decodes to
\* exactly the upstream's header mapping.
C5_ReceivedHeadersRoundTrip ==
    (pc = "responded" /\ hasTarget(request) /\ ~isPreflightRequest(request)
        /\ response.status # 403) =>
        /\ JSONParse(response.headers[H_cors_received_headers]).err = ""
        /\ DecodedMap(response.headers[H_cors_received_headers]) = upstream.headers

\* What holds of the code: the same, for upstream headers other than __proto__.
ReceivedHeadersRoundTripButProto ==
    (pc = "responded" /\ hasTarget(request) /\ ~isPreflightRequest(request)
        /\ response.status # 403) =>
        /\ JSONParse(response.headers[H_cors_received_headers]).err = ""
        /\ DecodedMap(response.headers[H_cors_received_headers])
              = HeadersDelete(upstream.headers, H_proto)

\* The upstream answered an allowed request with a target, and its body,
\* where one is read, was read.
UpstreamAnswered ==
    /\ PolicyAllowed /\ hasTarget(request)
    /\ upstream # None /\ upstream.kind = "response"
    /\ pc \in {"responded", "failed"}

\* The bytes of a body; none where there is no body.
BodyBytes(body) == IF body = Null THEN <<>> ELSE body

\* The query string, percent-decoded twice.
TwiceDecoded(search) ==
    decodeURIComponent(decodeURIComponent(IF search = <<>> THEN <<>> ELSE Tail(search)).value).value

\* C6: an allowed non-preflight request with a target is forwarded to the
\* twice-decoded query, the string the URL lists were matched against, and
\* answered with the upstream's status, status text and body, whatever the
\* status.
C6_UpstreamMirrored ==
    /\ (outbound # None) =>
          /\ outbound.url = TwiceDecoded(request.search)
          /\ isAccessAllowed(outbound.url, originOf(request), envLists) = Ret(TRUE)
    /\ (UpstreamAnswered /\ ~isPreflightRequest(request)) =>
          /\ pc = "responded"
          /\ response.status = upstream.status
          /\ response.statusText = upstream.statusText
          /\ BodyBytes(response.body) = BodyBytes(upstream.body)

\* The query %252a, encoded twice, was forwarded as "*", and the upstream's
\* 404 and its body were passed on.
C6_Witness ==
    /\ UpstreamAnswered /\ ~isPreflightRequest(request)
    /\ request.search = <<"?", "%", "2", "5", "2", "a">>
    /\ outbound.url = <<"*">>
    /\ upstream.status = 404
    /\ response.status = 404 /\ response.body = <<"b">>

\* What C7 says of every answered preflight but its Access-Control-Allow-Headers.
PreflightAnswer ==
    /\ pc = "responded"
    /\ response.status = 200 /\ response.statusText = "OK" /\ response.body = Null
    /\ response.headers[H_ac_allow_methods]
          = ToByteString(HeadersGet(request.headers, H_acr_method))
    /\ ~HeadersHas(response.headers, H_x_content_type_options)

\* C7, as stated: an answered preflight is 200 OK without a body, echoes
\* access-control-request-method, echoes access-control-request-headers
\* when that header is present, and has no X-Content-Type-Options.
C7_PreflightEchoesWhenPresent ==
    (UpstreamAnswered /\ isPreflightRequest(request)) =>
        /\ PreflightAnswer
        /\ HeadersHas(request.headers, H_acr_headers) =>
              HeadersGet(response.headers, H_ac_allow_headers)
                 = HeadersGet(request.headers, H_acr_headers)

\* C7, amended: access-control-request-headers is echoed when it is present
\* and not empty; otherwise Access-Control-Allow-Headers is the upstream's,
\* if any.  An absent access-control-request-method is echoed as "null".
C7_PreflightEchoesWhenNotEmpty ==
    (UpstreamAnswered /\ isPreflightRequest(request)) =>
        /\ PreflightAnswer
        /\ HeadersGet(response.headers, H_ac_allow_headers)
              = IF HeadersGet(request.headers, H_acr_headers) \notin {Null, <<>>}
                THEN HeadersGet(request.headers, H_acr_headers)
                ELSE HeadersGet(upstream.headers, H_ac_allow_headers)

\* A preflight was answered 200 OK although the upstream said 404 and sent
\* X-Content-Type-Options and its own Access-Control-Allow-Headers.
C7_Witness ==
    /\ UpstreamAnswered /\ isPreflightRequest(request)
    /\ upstream.status = 404
    /\ HeadersHas(upstream.headers, H_x_content_type_options)
    /\ HeadersGet(upstream.headers, H_ac_allow_headers) = <<"u">>
    /\ HeadersGet(request.headers, H_acr_headers) = <<"h">>
    /\ HeadersGet(request.headers, H_acr_method) = <<"P">>
    /\ response.status = 200
    /\ HeadersGet(response.headers, H_ac_allow_headers) = <<"h">>

====
